---------------------------- MODULE Spec2Model ----------------------------
(***************************************************************************)
(* A model of the pgo-client game client: the engine callbacks Update and  *)
(* Draw of game/game.go, the background loops ListenToServer and           *)
(* PrintCoordinates, and the shared Game state they work on.               *)
(*                                                                         *)
(* Go strings are sequences of bytes (len counts bytes), a rune typed by   *)
(* the user is UTF-8 encoded when it is appended.  Times are integers in   *)
(* milliseconds.  Outbound JSON messages are records.                      *)
(***************************************************************************)
EXTENDS Integers, Sequences, FiniteSets

(***************************************************************************)
(* Program constants.                                                      *)
(***************************************************************************)
ScreenWidth == 800
ScreenHeight == 600
debounceTime == 200
maxChatLines == 10
maxMessageLen == 100
cursorBlinkInterval == 500
scrollBarWidth == 10
chatBoxHeight == 300
moveAmount == 2

Directions == {"North", "East", "South", "West"}
AnimationTypes == {"Idle", "Walk"}
AnimationSpeeds == [Idle |-> 30, Walk |-> 10]
ClientID == "PLAYER_ID"

\* The zero time.Time, the value of lastToggleTime and lastCursorBlink in a
\* freshly built Game.
ZeroTime == 0

(***************************************************************************)
(* Bounds of the model and the input envelopes.                            *)
(***************************************************************************)
\* The wall clock at the first Update: far later than the zero time.
StartClock == 1000
\* Largest number of frames a sprite directory holds.
MaxFrames == 2
\* Clock horizons of the specifications (milliseconds after StartClock).
HorizonChat == 5000
HorizonUI == 800
HorizonMove == 2500
HorizonRun == 650
HorizonType == 1300
HorizonEcho == 1100
BurstLen == 98
HorizonStart == 450
HorizonDraw == 650
HorizonScroll == 1250
HorizonFocus == 1050
HorizonSteer == 2450
HorizonTick == 8300
HorizonSend == 1050
HorizonFair == 450

Keys == {"Tab", "Enter", "M", "I", "Up", "Down", "Left", "Right",
         "Backspace", "PageUp", "PageDown", "MouseLeft"}

\* Runes the user types: a, e-acute, the euro sign.
RuneA == 97
RuneM == 109
RuneEAcute == 233
RuneEuro == 8364

\* The login name handed to runGame, and one a login_success message carries.
LoginName == <<117>>
OtherName == <<118>>

(***************************************************************************)
(* The state.                                                              *)
(***************************************************************************)
VARIABLES
    \* fields of Game
    PlayerImages, Players, FrameIndex, AnimationTick, AnimationSpeed,
    Direction, IsMoving, IsMapEditorActive, IsInventoryActive,
    IsChatBoxActive, IsChatCursorActive, lastToggleTime, lastCursorBlink,
    cursorVisible, chatMessages, currentChatMessage, Username,
    chatScrollOffset, isDraggingScrollBar, dragStartY, originalScrollOffset,
    mu,
    \* the environment and the goroutines
    now,          \* the clock as last read by Update
    sent,         \* what the last Update wrote to Conn, in order
    pcMain,       \* runGame: "dial", "load", "listen", "print", "engine",
                  \* "running" (in ebiten.RunGame), "fatal" (log.Fatal)
    conn,         \* runGame's conn: "nil" or "open"
    dials,        \* history: the dial attempts made
    pcListen,     \* ListenToServer: "off" (not started), "read", "lock",
                  \* "store", "done"
    players,      \* ListenToServer's local variable
    pcPrint,      \* PrintCoordinates: "off" (not started), "sleep", "locked"
    pcDraw,       \* Draw: "off" (engine not started), "idle", "frame",
                  \* "lock", "coords", "panic"
    frame,        \* Draw's local frame, err
    screen,       \* what the running or last Draw has drawn
    pcHandle,     \* handleServerMessages: "off" (not started), "read", "done"
    received,     \* history: the last message handleServerMessages read
    readFailed,   \* history: ReadJSON has returned an error to ListenToServer
    \* history of the accepted toggles
    held,         \* the keys held in the last Update
    accepted,     \* the controls the last Update toggled
    sinceToggle   \* per control, the time since its last accepted toggle,
                  \* counted up to debounceTime + 1

\* The fields only the engine's goroutine (Update, Draw) reads and writes.
engineVars == <<PlayerImages, FrameIndex, AnimationTick, AnimationSpeed,
                Direction, IsMoving, IsMapEditorActive, IsInventoryActive,
                IsChatBoxActive, IsChatCursorActive, lastToggleTime,
                lastCursorBlink, cursorVisible, chatMessages,
                currentChatMessage, chatScrollOffset, isDraggingScrollBar,
                dragStartY, originalScrollOffset>>
gameVars == <<engineVars, Username, Players, mu>>
updateVars == <<now, sent, held, accepted, sinceToggle>>
listenVars == <<pcListen, players, readFailed>>
drawVars == <<pcDraw, frame, screen>>
startVars == <<pcMain, conn, dials>>
handleVars == <<pcHandle, received>>
envVars == <<updateVars, listenVars, drawVars, pcPrint, handleVars, startVars>>
vars == <<gameVars, envVars>>

(***************************************************************************)
(* Pure helpers.                                                           *)
(***************************************************************************)
min(a, b) == IF a < b THEN a ELSE b

max(a, b) == IF a > b THEN a ELSE b

clamp(value, minValue, maxValue) ==
    IF value < minValue THEN minValue
    ELSE IF value > maxValue THEN maxValue
    ELSE value

\* Go's int(x / y) for integral x and y > 0: the quotient truncated toward zero.
TruncDiv(x, y) == IF x >= 0 THEN x \div y ELSE -((-x) \div y)

\* time.Time.Sub
Sub(t, u) == t - u

\* Debounced with the comparison >=.
DebouncedInclusive(t, last) == Sub(t, last) >= debounceTime

\* now.Sub(g.lastToggleTime) > debounceTime
Debounced(t, last) == Sub(t, last) > debounceTime

\* now.Sub(g.lastCursorBlink) >= cursorBlinkInterval
BlinkDue(t, last) == Sub(t, last) >= cursorBlinkInterval

\* string(char): the UTF-8 encoding of a rune.
EncodeRune(r) ==
    IF r < 128 THEN <<r>>
    ELSE IF r < 2048 THEN <<192 + (r \div 64), 128 + (r % 64)>>
    ELSE IF r < 65536
         THEN <<224 + (r \div 4096), 128 + ((r \div 64) % 64), 128 + (r % 64)>>
    ELSE <<240 + (r \div 262144), 128 + ((r \div 4096) % 64),
           128 + ((r \div 64) % 64), 128 + (r % 64)>>

\* One pass of the loop over ebiten.InputChars().
AppendChar(text, char) ==
    IF Len(text) < maxMessageLen THEN text \o EncodeRune(char) ELSE text

\* The loop over ebiten.InputChars(), in order: the first half of the runes,
\* then the rest, none of which a text of maxMessageLen bytes or more takes.
RECURSIVE TypeChars(_, _)
TypeChars(text, chars) ==
    IF chars = <<>> THEN text
    ELSE IF Len(chars) = 1 THEN AppendChar(text, chars[1])
    ELSE LET half == Len(chars) \div 2
             first == TypeChars(text, SubSeq(chars, 1, half))
         IN  IF Len(first) >= maxMessageLen THEN first
             ELSE TypeChars(first, SubSeq(chars, half + 1, Len(chars)))

\* g.currentChatMessage[:len(g.currentChatMessage)-1] when Backspace is held.
Backspace(text, pressed) ==
    IF pressed /\ Len(text) > 0 THEN SubSeq(text, 1, Len(text) - 1) ELSE text

\* handleChatInput: the new currentChatMessage.
handleChatInput(text, chars, backspace) ==
    Backspace(TypeChars(text, chars), backspace)

\* fmt.Sprintf("%s: %s", username, message)
Sprintf(username, message) == username \o <<58, 32>> \o message

\* Input with the amount of a single step.
InputUnitAmount(type) == [type |-> type, amount |-> 1]

\* The outbound messages.
Input(type) == [type |-> type, amount |-> moveAmount]

ChatMessage(username, message) == [username |-> username, message |-> message]

\* AppendChat that drops the oldest entry of a history over maxChatLines.
AppendChatEvicting(messages, username, message) ==
    LET all == Append(messages, Sprintf(username, message))
    IN  IF Len(all) > maxChatLines THEN Tail(all) ELSE all

\* The chat history after the send of message by username.
AppendChat(messages, username, message) ==
    Append(messages, Sprintf(username, message))

\* The scroll offset a send leaves, n being the new length of the history.
ScrollToBottom(n) == IF n > maxChatLines THEN n - maxChatLines ELSE 0

\* MoveCommand that prefers left and right to up and down.
MoveCommandSideways(keys) ==
    IF "Left" \in keys THEN "move_left"
    ELSE IF "Right" \in keys THEN "move_right"
    ELSE IF "Up" \in keys THEN "move_up"
    ELSE IF "Down" \in keys THEN "move_down"
    ELSE "none"

\* The move command of an Update whose chat cursor is not active: the first
\* held key in the order up, down, left, right.
MoveCommand(keys) ==
    IF "Up" \in keys THEN "move_up"
    ELSE IF "Down" \in keys THEN "move_down"
    ELSE IF "Left" \in keys THEN "move_left"
    ELSE IF "Right" \in keys THEN "move_right"
    ELSE "none"

\* MovesAllowed that lets every Update reach the movement block.
MovesAlways(cursorActive) == TRUE

\* Whether Update reaches the movement block (game.go line 131).
MovesAllowed(cursorActive) == ~cursorActive

MoveDirection(command) ==
    CASE command = "move_up" -> "North"
      [] command = "move_down" -> "South"
      [] command = "move_left" -> "West"
      [] command = "move_right" -> "East"

\* setDirection that keeps FrameIndex on a turn.
setDirectionKeepIndex(current, index, direction) == <<direction, index>>

\* setDirection: the new <<Direction, FrameIndex>>.
setDirection(current, index, direction) ==
    IF current # direction THEN <<direction, 0>> ELSE <<current, index>>

AnimationType(moving) == IF moving THEN "Walk" ELSE "Idle"

\* TickDue that lets the tick reach the speed before it is reset.
TickDueLate(tick, speed) == tick > speed

\* Whether the incremented tick resets and steps the animation (line 206).
TickDue(tick, speed) == tick >= speed

\* updateFrameIndex that skips a frame.
updateFrameIndexSkip(images, direction, moving, index) ==
    LET frameCount == images[direction][AnimationType(moving)]
    IN  IF frameCount > 0 THEN (index + 2) % frameCount ELSE 0

\* updateFrameIndex: the new FrameIndex.
updateFrameIndex(images, direction, moving, index) ==
    LET frameCount == images[direction][AnimationType(moving)]
    IN  IF frameCount > 0 THEN (index + 1) % frameCount ELSE 0

\* getCurrentFrame that reports no error for an empty frame table.
getCurrentFrameNoError(images, direction, moving, index) ==
    LET frames == images[direction][AnimationType(moving)]
    IN  IF frames > 0 /\ index < frames
        THEN [err |-> "nil",
              frame |-> <<direction, AnimationType(moving), index>>]
        ELSE IF frames > 0
        THEN [err |-> "frame index out of range", frame |-> <<>>]
        ELSE [err |-> "nil", frame |-> <<>>]

\* getCurrentFrame: the frame (<<>> is the nil image) and the error.
getCurrentFrame(images, direction, moving, index) ==
    LET frames == images[direction][AnimationType(moving)]
    IN  IF frames > 0
        THEN IF index < frames
             THEN [err |-> "nil",
                   frame |-> <<direction, AnimationType(moving), index>>]
             ELSE [err |-> "frame index out of range", frame |-> <<>>]
        ELSE [err |-> "no frames available", frame |-> <<>>]

(***************************************************************************)
(* Update (game/game.go): one call, with the keys held, the runes typed,   *)
(* the cursor position and the time since the previous call as inputs.     *)
(* The calls of setDirection and updateFrameIndex take g.mu, so an Update  *)
(* that makes one waits until the lock is free; nothing else Update        *)
(* touches is shared with another goroutine.                               *)
(***************************************************************************)
\* The scroll bar's hit test (lines 181-185), n messages at offset off.  The
\* code divides floats: with no message, or exactly maxChatLines of them, a
\* bound is NaN and the test fails; otherwise the comparisons are those of
\* the exact quotients, cross-multiplied by n * (n - maxChatLines).
OverScrollBar(n, off, mouseX, mouseY) ==
    LET d == n * (n - maxChatLines)
        \* (chatBoxHeight - scrollBarHeight) * offset, times n
        a == (chatBoxHeight * n - chatBoxHeight * maxChatLines) * off
        \* mouseY - (ScreenHeight - chatBoxHeight)
        y == mouseY - (ScreenHeight - chatBoxHeight)
        \* scrollBarHeight, times d
        h == chatBoxHeight * maxChatLines * (n - maxChatLines)
    IN  /\ n # 0
        /\ n # maxChatLines
        /\ mouseX >= ScreenWidth - scrollBarWidth
        /\ IF d > 0 THEN y * d >= a /\ y * d <= a + h
                    ELSE y * d <= a /\ y * d >= a + h

\* The offset a drag gives (lines 170-175).
DragOffset(n, original, startY, mouseY) ==
    clamp(original + TruncDiv((mouseY - startY) * (n - maxChatLines), chatBoxHeight),
          0, n - maxChatLines)

\* The offset after the PageUp / PageDown keys (lines 192-196).
PageOffset(n, off, keys) ==
    IF "PageUp" \in keys THEN max(0, off - 1)
    ELSE IF "PageDown" \in keys THEN min(n - maxChatLines, off + 1)
    ELSE off

\* SendDue that also sends an empty text.
SendDueEmpty(enterOk, cursor, text) == enterOk /\ ~cursor

\* Whether the Enter handling sends the typed text (lines 98, 102): Enter was
\* accepted, it left the cursor inactive, and the text is not empty.
SendDue(enterOk, cursor, text) == enterOk /\ ~cursor /\ Len(text) > 0

\* Stamp that leaves lastToggleTime as it is.
StampNone(ok, t, last) == last

\* g.lastToggleTime after a toggle's if statement: now when the toggle was
\* accepted (lines 90, 100, 134, 138).
Stamp(ok, t, last) == IF ok THEN t ELSE last

\* CursorAfterTab that leaves the cursor as it is.
CursorKeptAfterTab(box, cursor) == cursor

\* The chat cursor after an accepted Tab that left the chat box open or
\* closed (lines 91-94).
CursorAfterTab(box, cursor) == IF ~box THEN FALSE ELSE cursor

Update(in) ==
    LET t == now + in.dt
        \* lines 88-95: Tab
        tabOk == "Tab" \in in.keys /\ Debounced(t, lastToggleTime)
        box == IF tabOk THEN ~IsChatBoxActive ELSE IsChatBoxActive
        last1 == Stamp(tabOk, t, lastToggleTime)
        cursor1 == IF tabOk THEN CursorAfterTab(box, IsChatCursorActive)
                   ELSE IsChatCursorActive
        \* lines 98-118: Enter
        enterOk == box /\ "Enter" \in in.keys /\ Debounced(t, last1)
        cursor == IF enterOk THEN ~cursor1 ELSE cursor1
        last2 == Stamp(enterOk, t, last1)
        send == SendDue(enterOk, cursor, currentChatMessage)
        messages == IF send
                    THEN AppendChat(chatMessages, Username, currentChatMessage)
                    ELSE chatMessages
        text1 == IF send THEN <<>> ELSE currentChatMessage
        off1 == IF send THEN ScrollToBottom(Len(messages)) ELSE chatScrollOffset
        \* lines 121-128: typing and the blinking cursor
        text == IF cursor
                THEN handleChatInput(text1, in.chars, "Backspace" \in in.keys)
                ELSE text1
        blink == cursor /\ BlinkDue(t, lastCursorBlink)
        \* lines 131-139: M and I
        mOk == ~cursor /\ "M" \in in.keys /\ Debounced(t, last2)
        last3 == Stamp(mOk, t, last2)
        iOk == ~cursor /\ "I" \in in.keys /\ Debounced(t, last3)
        last4 == Stamp(iOk, t, last3)
        \* lines 141-162: the move command
        command == IF MovesAllowed(cursor) THEN MoveCommand(in.keys) ELSE "none"
        moving == command # "none"
        facing == IF moving
                  THEN setDirection(Direction, FrameIndex, MoveDirection(command))
                  ELSE <<Direction, FrameIndex>>
        \* lines 166-197: scrolling
        n == Len(messages)
        mouse == "MouseLeft" \in in.keys
        startDrag == /\ box /\ ~isDraggingScrollBar /\ mouse
                     /\ OverScrollBar(n, off1, in.mouseX, in.mouseY)
        off2 == IF box /\ isDraggingScrollBar /\ mouse
                THEN DragOffset(n, originalScrollOffset, dragStartY, in.mouseY)
                ELSE off1
        off == IF box THEN PageOffset(n, off2, in.keys) ELSE off2
        \* lines 200-209: the animation tick
        tick == AnimationTick + 1
        speed == AnimationSpeeds[AnimationType(moving)]
        step == TickDue(tick, speed)
        toggled == {c \in {"Tab", "Enter", "M", "I"} :
                       \/ c = "Tab" /\ tabOk
                       \/ c = "Enter" /\ enterOk
                       \/ c = "M" /\ mOk
                       \/ c = "I" /\ iOk}
    IN  /\ pcDraw = "idle"
        /\ (moving \/ step) => mu = "none"
        /\ now' = t
        /\ IsChatBoxActive' = box
        /\ IsChatCursorActive' = cursor
        /\ lastToggleTime' = last4
        /\ chatMessages' = messages
        /\ currentChatMessage' = text
        /\ sent' = (IF send
                    THEN <<ChatMessage(Username, currentChatMessage)>>
                    ELSE <<>>)
                   \o (IF moving THEN <<Input(command)>> ELSE <<>>)
        /\ cursorVisible' = IF blink THEN ~cursorVisible ELSE cursorVisible
        /\ lastCursorBlink' = IF blink THEN t ELSE lastCursorBlink
        /\ IsMapEditorActive' = IF mOk THEN ~IsMapEditorActive ELSE IsMapEditorActive
        /\ IsInventoryActive' = IF iOk THEN ~IsInventoryActive ELSE IsInventoryActive
        /\ IsMoving' = moving
        /\ Direction' = facing[1]
        /\ isDraggingScrollBar' =
              IF box /\ isDraggingScrollBar THEN mouse
              ELSE IF startDrag THEN TRUE ELSE isDraggingScrollBar
        /\ dragStartY' = IF startDrag THEN in.mouseY ELSE dragStartY
        /\ originalScrollOffset' = IF startDrag THEN off1 ELSE originalScrollOffset
        /\ chatScrollOffset' = off
        /\ AnimationSpeed' = speed
        /\ AnimationTick' = IF step THEN 0 ELSE tick
        /\ FrameIndex' = IF step
                         THEN updateFrameIndex(PlayerImages, facing[1], moving,
                                               facing[2])
                         ELSE facing[2]
        /\ accepted' = toggled
        /\ held' = in.keys
        /\ sinceToggle' = [c \in DOMAIN sinceToggle |->
                              IF c \in toggled THEN 0
                              ELSE min(sinceToggle[c] + in.dt, debounceTime + 1)]
        /\ UNCHANGED <<PlayerImages, Players, Username, mu, listenVars,
                       drawVars, pcPrint, handleVars, startVars>>

(***************************************************************************)
(* Draw (game/game.go lines 269-304).  The engine calls Update and Draw    *)
(* from one goroutine, so a Draw runs between two Updates; its steps       *)
(* interleave with the two background loops.                               *)
(***************************************************************************)
NoPlayers == [k \in {} |-> 0]

\* A screen nothing is drawn on: no chat box, no sprite, no coordinates.
Blank == [fill |-> "none", chatBox |-> FALSE, lines |-> <<>>, sprites |-> {},
          coords |-> <<>>]

\* drawChatBox's loop (lines 327-330): the lines drawn, or the panic of an
\* index below zero.
drawChatBox(messages, off) ==
    IF off < 0 THEN [panic |-> TRUE, lines |-> <<>>]
    ELSE [panic |-> FALSE,
          lines |-> [i \in 1..max(0, min(maxChatLines, Len(messages) - off)) |->
                       messages[off + i]]]

\* The sprites of the loop over g.Players (lines 292-296).
Sprites(all, image) ==
    {[frame |-> image, x |-> all[k].x, y |-> all[k].y] : k \in DOMAIN all}

\* g.Players[g.ClientID] (lines 300-303, and PrintCoordinates): the client's
\* <<x, y>>, or <<>> when the map has no such key.
Coordinates(all) ==
    IF ClientID \in DOMAIN all THEN <<all[ClientID].x, all[ClientID].y>>
    ELSE <<>>

\* DrawBegin that looks at the inventory before the map editor.
DrawBeginInventoryFirst ==
    /\ pcDraw = "idle"
    /\ IF IsInventoryActive
       THEN /\ screen' = [Blank EXCEPT !.fill = "inventory"]
            /\ pcDraw' = "idle"
       ELSE IF IsMapEditorActive
       THEN /\ screen' = [Blank EXCEPT !.fill = "mapEditor"]
            /\ pcDraw' = "idle"
       ELSE IF IsChatBoxActive
       THEN LET box == drawChatBox(chatMessages, chatScrollOffset)
            IN  /\ screen' = [Blank EXCEPT !.fill = "black", !.chatBox = TRUE,
                                           !.lines = box.lines]
                /\ pcDraw' = IF box.panic THEN "panic" ELSE "frame"
       ELSE /\ screen' = [Blank EXCEPT !.fill = "black"]
            /\ pcDraw' = "frame"
    /\ UNCHANGED <<gameVars, updateVars, listenVars, frame, pcPrint, handleVars,
                   startVars>>

\* Lines 270-284: the panel, and the chat box.
DrawBegin ==
    /\ pcDraw = "idle"
    /\ IF IsMapEditorActive
       THEN /\ screen' = [Blank EXCEPT !.fill = "mapEditor"]
            /\ pcDraw' = "idle"
       ELSE IF IsInventoryActive
       THEN /\ screen' = [Blank EXCEPT !.fill = "inventory"]
            /\ pcDraw' = "idle"
       ELSE IF IsChatBoxActive
       THEN LET box == drawChatBox(chatMessages, chatScrollOffset)
            IN  /\ screen' = [Blank EXCEPT !.fill = "black", !.chatBox = TRUE,
                                           !.lines = box.lines]
                /\ pcDraw' = IF box.panic THEN "panic" ELSE "frame"
       ELSE /\ screen' = [Blank EXCEPT !.fill = "black"]
            /\ pcDraw' = "frame"
    /\ UNCHANGED <<gameVars, updateVars, listenVars, frame, pcPrint, handleVars,
                   startVars>>

\* Line 286: getCurrentFrame, which takes and releases g.mu.
DrawFrame ==
    /\ pcDraw = "frame"
    /\ mu = "none"
    /\ frame' = getCurrentFrame(PlayerImages, Direction, IsMoving, FrameIndex)
    /\ pcDraw' = IF frame'.err # "nil" THEN "coords" ELSE "lock"
    /\ UNCHANGED <<gameVars, updateVars, listenVars, screen, pcPrint,
                   handleVars, startVars>>

\* Lines 290-296: take g.mu (released when Draw returns) and draw the frame
\* for every player.
DrawSprites ==
    /\ pcDraw = "lock"
    /\ mu = "none"
    /\ mu' = "draw"
    /\ screen' = [screen EXCEPT !.sprites = Sprites(Players, frame.frame)]
    /\ pcDraw' = "coords"
    /\ UNCHANGED <<engineVars, Username, Players, updateVars, listenVars,
                   frame, pcPrint, handleVars, startVars>>

\* Lines 300-303, and the return: the deferred Unlock of line 291 runs only
\* when line 290 took the lock.
DrawCoords ==
    /\ pcDraw = "coords"
    /\ screen' = [screen EXCEPT !.coords = Coordinates(Players)]
    /\ mu' = IF mu = "draw" THEN "none" ELSE mu
    /\ pcDraw' = "idle"
    /\ UNCHANGED <<engineVars, Username, Players, updateVars, listenVars,
                   frame, pcPrint, handleVars, startVars>>

(***************************************************************************)
(* The background loops.  A panic of the engine's goroutine ends the       *)
(* process, and with it every loop.                                        *)
(***************************************************************************)
Alive == pcDraw # "panic"

IDs == {ClientID, "p2"}

\* The JSON objects the server broadcasts: player identifier to an object
\* with the fields it carries.
Broadcasts ==
    { NoPlayers,
      [k \in {ClientID} |-> [id |-> ClientID, x |-> 1, y |-> 1]],
      [k \in IDs |-> IF k = ClientID THEN [id |-> k, x |-> 2, y |-> 0]
                                     ELSE [id |-> k, x |-> 3, y |-> 3]],
      [k \in {"p2"} |-> [x |-> 3]] }

\* The Player a JSON object decodes to: a field the object lacks keeps its
\* zero value.
DecodePlayer(object) ==
    [id |-> IF "id" \in DOMAIN object THEN object.id ELSE "",
     x |-> IF "x" \in DOMAIN object THEN object.x ELSE 0,
     y |-> IF "y" \in DOMAIN object THEN object.y ELSE 0]

\* ReadJSON(&players) into a fresh nil map.
Decode(message) == [k \in DOMAIN message |-> DecodePlayer(message[k])]

\* Store as an update of the entries the broadcast names.
StoreMerged(old, decoded) ==
    [k \in DOMAIN old \cup DOMAIN decoded |->
        IF k \in DOMAIN decoded THEN decoded[k] ELSE old[k]]

\* What ListenToServer stores (lines 33-35 of ListenToServer).
Store(old, decoded) == decoded

\* ReadJSON returns a broadcast.
ListenRead(message) ==
    /\ Alive
    /\ pcListen = "read"
    /\ players' = Decode(message)
    /\ pcListen' = "lock"
    /\ UNCHANGED <<gameVars, updateVars, readFailed, drawVars, pcPrint,
                   handleVars, startVars>>

\* ListenError with the loop going on to the next read.
ListenErrorRetry ==
    /\ Alive
    /\ pcListen = "read"
    /\ readFailed' = TRUE
    /\ UNCHANGED <<gameVars, updateVars, pcListen, players, drawVars, pcPrint,
                   handleVars, startVars>>

\* ReadJSON returns an error: the loop returns.
ListenError ==
    /\ Alive
    /\ pcListen = "read"
    /\ pcListen' = "done"
    /\ readFailed' = TRUE
    /\ UNCHANGED <<gameVars, updateVars, players, drawVars, pcPrint, handleVars,
                   startVars>>

ListenLock ==
    /\ Alive
    /\ pcListen = "lock"
    /\ mu = "none"
    /\ mu' = "listen"
    /\ pcListen' = "store"
    /\ UNCHANGED <<engineVars, Username, Players, updateVars, players,
                   readFailed, drawVars, pcPrint, handleVars, startVars>>

ListenStore ==
    /\ Alive
    /\ pcListen = "store"
    /\ Players' = Store(Players, players)
    /\ mu' = "none"
    /\ pcListen' = "read"
    /\ UNCHANGED <<engineVars, Username, updateVars, players, readFailed,
                   drawVars, pcPrint, handleVars, startVars>>

\* PrintCoordinates: after the sleep, take g.mu.
PrintLock ==
    /\ Alive
    /\ pcPrint = "sleep"
    /\ mu = "none"
    /\ mu' = "print"
    /\ pcPrint' = "locked"
    /\ UNCHANGED <<engineVars, Username, Players, updateVars, listenVars,
                   drawVars, handleVars, startVars>>

\* PrintLog that goes back to sleep without releasing g.mu.
PrintLogHolding ==
    /\ Alive
    /\ pcPrint = "locked"
    /\ pcPrint' = "sleep"
    /\ UNCHANGED <<gameVars, updateVars, listenVars, drawVars, handleVars,
                   startVars>>

\* PrintCoordinates: log the client's coordinates, release g.mu.
PrintLog ==
    /\ Alive
    /\ pcPrint = "locked"
    /\ mu' = "none"
    /\ pcPrint' = "sleep"
    /\ UNCHANGED <<engineVars, Username, Players, updateVars, listenVars,
                   drawVars, handleVars, startVars>>

(***************************************************************************)
(* handleServerMessages (game/game.go lines 357-378).  runGame does not    *)
(* start it: pcHandle is "off" in the running client.                      *)
(***************************************************************************)
\* No message read yet.
NoMessage == [none |-> TRUE]

\* The messages it may read: JSON objects of strings, and one (a broadcast)
\* that does not unmarshal into map[string]string.
ServerMessages ==
    { [type |-> "login_success", username |-> OtherName],
      [type |-> "login_success"],
      [type |-> "chat", username |-> OtherName],
      [username |-> OtherName],
      [nested |-> TRUE] }

\* json.Unmarshal(message, &response) succeeds.
Unmarshals(message) == "nested" \notin DOMAIN message

\* response["type"] is "login_success".
IsLoginSuccess(response) ==
    "type" \in DOMAIN response /\ response.type = "login_success"

\* response["username"]: the empty string when the key is absent.
ResponseUsername(response) ==
    IF "username" \in DOMAIN response THEN response.username ELSE <<>>

\* The Username after one message (lines 365-376).
HandledUsername(username, message) ==
    IF Unmarshals(message) /\ IsLoginSuccess(message)
    THEN ResponseUsername(message)
    ELSE username

\* HandleMessage that takes the username of any message that carries one.
HandleMessageAnyType(message) ==
    /\ Alive
    /\ pcHandle = "read"
    /\ Username' = IF Unmarshals(message) /\ "username" \in DOMAIN message
                   THEN message.username
                   ELSE Username
    /\ received' = message
    /\ UNCHANGED <<engineVars, Players, mu, updateVars, listenVars, drawVars,
                   pcPrint, pcHandle, startVars>>

\* HandleMessage that also shows a chat message of the server in the chat box.
HandleMessageEcho(message) ==
    /\ Alive
    /\ pcHandle = "read"
    /\ Username' = HandledUsername(Username, message)
    /\ received' = message
    /\ chatMessages' =
          IF Unmarshals(message) /\ "type" \in DOMAIN message
                /\ message.type = "chat"
          THEN Append(chatMessages, Sprintf(ResponseUsername(message), <<RuneA>>))
          ELSE chatMessages
    /\ UNCHANGED <<PlayerImages, FrameIndex, AnimationTick, AnimationSpeed,
                   Direction, IsMoving, IsMapEditorActive, IsInventoryActive,
                   IsChatBoxActive, IsChatCursorActive, lastToggleTime,
                   lastCursorBlink, cursorVisible, currentChatMessage,
                   chatScrollOffset, isDraggingScrollBar, dragStartY,
                   originalScrollOffset, Players, mu, updateVars, listenVars,
                   drawVars, pcPrint, pcHandle, startVars>>

HandleMessage(message) ==
    /\ Alive
    /\ pcHandle = "read"
    /\ Username' = HandledUsername(Username, message)
    /\ received' = message
    /\ UNCHANGED <<engineVars, Players, mu, updateVars, listenVars, drawVars,
                   pcPrint, pcHandle, startVars>>

HandleError ==
    /\ Alive
    /\ pcHandle = "read"
    /\ pcHandle' = "done"
    /\ UNCHANGED <<gameVars, updateVars, listenVars, drawVars, pcPrint,
                   received, startVars>>

(***************************************************************************)
(* The initial state: the Game runGame builds (main.go lines 128-138),     *)
(* with the frame tables LoadFrames read from the sprite directories.      *)
(***************************************************************************)
\* The frame tables: idle frames and walk frames per direction.
Table(idle, walk) == [d \in Directions |-> [Idle |-> idle, Walk |-> walk]]

FrameTables == {Table(idle, walk) : idle, walk \in 0..MaxFrames}

\* The Game literal of runGame (lines 128-138): the fields it names, the
\* others zero; and the environment before anything has run.
NewGame ==
    /\ Players = NoPlayers
    /\ FrameIndex = 0
    /\ AnimationTick = 0
    /\ AnimationSpeed = 0
    /\ Direction = "North"
    /\ IsMoving = FALSE
    /\ IsMapEditorActive = FALSE
    /\ IsInventoryActive = FALSE
    /\ IsChatBoxActive = FALSE
    /\ IsChatCursorActive = FALSE
    /\ lastToggleTime = ZeroTime
    /\ lastCursorBlink = ZeroTime
    /\ cursorVisible = FALSE
    /\ chatMessages = <<>>
    /\ currentChatMessage = <<>>
    /\ Username = LoginName
    /\ chatScrollOffset = 0
    /\ isDraggingScrollBar = FALSE
    /\ dragStartY = 0
    /\ originalScrollOffset = 0
    /\ mu = "none"
    /\ now = StartClock
    /\ sent = <<>>
    /\ players = NoPlayers
    /\ frame = [err |-> "nil", frame |-> <<>>]
    /\ screen = Blank
    /\ readFailed = FALSE
    /\ received = NoMessage
    /\ held = {}
    /\ accepted = {}
    /\ sinceToggle = [c \in {"Tab", "Enter", "M", "I"} |-> debounceTime + 1]

\* The state in which ebiten.RunGame starts the engine: the connection is
\* open, the frames are loaded, the two loops are started.
InitGame(tables, handler) ==
    /\ NewGame
    /\ PlayerImages \in tables
    /\ pcListen = "read"
    /\ pcPrint = "sleep"
    /\ pcDraw = "idle"
    /\ pcHandle = handler
    /\ pcMain = "running"
    /\ conn = "open"
    /\ dials = 1

(***************************************************************************)
(* The inputs of an Update.                                                *)
(***************************************************************************)
Frame(keys, chars, dt) ==
    [keys |-> keys, chars |-> chars, mouseX |-> 0, mouseY |-> 0, dt |-> dt]

\* The time between two Updates: just over the debounce time, or half of it.
DtLong == debounceTime + 1
DtShort == debounceTime \div 2

(***************************************************************************)
(* Spec: the running client.  runGame starts ListenToServer and            *)
(* PrintCoordinates and hands the Game to the engine, which calls Update   *)
(* and Draw.  The user holds an arrow key, M or nothing.                   *)
(***************************************************************************)
RunTables == {Table(0, MaxFrames), Table(1, 1)}

RunInputs ==
    {Frame(keys, <<>>, DtLong) :
        keys \in {{}, {"Up"}, {"Down"}, {"Left"}, {"Right"}, {"M"}}}

Init == InitGame(RunTables, "off")

UpdateRun ==
    \E in \in RunInputs :
        /\ now + in.dt <= StartClock + HorizonRun
        /\ Update(in)

Listen ==
    \/ \E message \in Broadcasts : ListenRead(message)
    \/ ListenError
    \/ ListenLock
    \/ ListenStore

PrintCoordinates == PrintLock \/ PrintLog

Draw == DrawBegin \/ DrawFrame \/ DrawSprites \/ DrawCoords

Next == UpdateRun \/ Draw \/ Listen \/ PrintCoordinates

Spec == Init /\ [][Next]_vars

(***************************************************************************)
(* Claims settled under Spec.                                              *)
(***************************************************************************)
\* The maps a broadcast decodes to, and the map runGame starts with.
WholeMaps == {Decode(message) : message \in Broadcasts} \cup {NoPlayers}

\* C4: every read and write of Players happens under g.mu, so the receive
\* loop never replaces Players while Draw reads it without the lock: when
\* ListenToServer is at its assignment to g.Players and Draw at its read of
\* g.Players[g.ClientID] (line 300), Draw holds the lock.
C4_PlayersReadUnderLock ==
    /\ (pcListen = "store" /\ pcDraw = "coords") => mu = "draw"
    /\ pcListen = "store" => mu = "listen"
    /\ pcPrint = "locked" => mu = "print"

\* C5: once ReadJSON has returned an error to ListenToServer, the loop is over
\* for good: it reads no further message and Players keeps its value in every
\* later step.
C5_ListenerStopsForGood ==
    [][readFailed => /\ pcListen = "done" /\ pcListen' = "done"
                     /\ players' = players
                     /\ Players' = Players]_vars

\* C5's case: the receive loop is over, Players holds a broadcast it stored,
\* and the engine has called Update and is inside a Draw.
C5_Witness ==
    /\ pcListen = "done"
    /\ Players # NoPlayers
    /\ now > StartClock
    /\ sent # <<>>
    /\ pcDraw = "coords"

\* C8: a decoded broadcast replaces Players wholesale, in one step under the
\* lock: Players is always a whole decoded map, the step that stores sets it
\* to the map just decoded, no other step changes it, and what one Draw shows
\* (the sprites and the client's coordinates) comes from whole maps, one and
\* the same map when Draw held the lock.
C8_PlayersReplacedWholesale ==
    /\ [](Players \in WholeMaps /\ players \in WholeMaps)
    /\ [][/\ (pcListen = "store" /\ pcListen' = "read")
              => (mu = "listen" /\ Players' = players)
          /\ Players' # Players => (pcListen = "store" /\ pcListen' = "read")
          /\ (pcDraw = "coords" /\ pcDraw' = "idle")
              => /\ \E whole \in WholeMaps :
                        screen'.coords = Coordinates(whole)
                 /\ mu = "draw"
                     => \E whole \in WholeMaps :
                           /\ screen'.sprites = Sprites(whole, frame.frame)
                           /\ screen'.coords = Coordinates(whole)]_vars

\* C8's case: a stored broadcast without the client's identifier has replaced
\* a map that held it, whose coordinates the last Draw still shows.
C8_Witness ==
    /\ ClientID \notin DOMAIN Players
    /\ Players # NoPlayers
    /\ screen.coords # <<>>
    /\ pcListen = "read"

MoveTypes == {"move_up", "move_down", "move_left", "move_right"}

\* C10: every input message Update writes has one of the four move types and
\* amount 2, and no Update changes Players (a step that reads the clock is an
\* Update).
C10_InputsOnlySent ==
    /\ [](\A i \in 1..Len(sent) :
             "type" \in DOMAIN sent[i]
                 => sent[i].type \in MoveTypes /\ sent[i].amount = 2)
    /\ [][now' # now => Players' = Players]_vars

\* C10's case: an Update has written move_left while Players holds the
\* client's position.
C10_Witness ==
    /\ \E i \in 1..Len(sent) : "type" \in DOMAIN sent[i] /\ sent[i].type = "move_left"
    /\ ClientID \in DOMAIN Players

(***************************************************************************)
(* SpecMove: the engine alone, walking and opening the map editor.  The    *)
(* user holds one of Up, Right, M, or nothing; the frame tables are any    *)
(* LoadFrames can have read.                                               *)
(***************************************************************************)
MoveInputs ==
    {Frame(keys, <<>>, DtLong) :
        keys \in {{}, {"Up"}, {"Right"}, {"M"}}}

InitMove == InitGame(FrameTables, "off")

UpdateMove ==
    \E in \in MoveInputs :
        /\ now + in.dt <= StartClock + HorizonMove
        /\ Update(in)

NextMove == UpdateMove \/ Draw

SpecMove == InitMove /\ [][NextMove]_vars

\* C2: whenever the frame table of the current direction and animation type
\* is not empty, FrameIndex is an index of it, and getCurrentFrame never
\* returns "frame index out of range".
C2_FrameIndexInBounds ==
    LET frameCount == PlayerImages[Direction][AnimationType(IsMoving)]
    IN  /\ frameCount > 0 => (0 <= FrameIndex /\ FrameIndex < frameCount)
        /\ frame.err # "frame index out of range"

PanelActive == IsMapEditorActive \/ IsInventoryActive \/ IsChatBoxActive

\* C3: an Update during which the map editor, the inventory or the chat box
\* is active writes no move message (the panels an Update leaves active are
\* those its movement block saw).
C3_NoMoveWhilePanelActive ==
    PanelActive => \A i \in 1..Len(sent) : "type" \notin DOMAIN sent[i]

(***************************************************************************)
(* SpecUI: the engine alone, the user holding any of Tab, Enter, M and I,  *)
(* the Updates half a debounce time or just over one apart.                *)
(***************************************************************************)
Controls == {"Tab", "Enter", "M", "I"}

UIInputs ==
    {Frame(keys, <<>>, dt) : keys \in SUBSET Controls, dt \in {DtShort, DtLong}}

InitUI == InitGame({Table(1, 1)}, "off")

UpdateUI ==
    \E in \in UIInputs :
        /\ now + in.dt <= StartClock + HorizonUI
        /\ Update(in)

NextUI == UpdateUI

SpecUI == InitUI /\ [][NextUI]_vars

\* C7: two accepted toggles of one control are more than debounceTime apart:
\* in every Update, a control is toggled (Tab flips the chat box, M the map
\* editor, I the inventory, Enter the chat cursor) only if its previous
\* accepted toggle, if any, lies more than debounceTime before this Update's
\* clock reading.
C7_Debounce ==
    [][now' # now =>
        /\ \A c \in accepted' :
              sinceToggle[c] + (now' - now) > debounceTime
        /\ (IsChatBoxActive' # IsChatBoxActive) <=> ("Tab" \in accepted')
        /\ (IsMapEditorActive' # IsMapEditorActive) <=> ("M" \in accepted')
        /\ (IsInventoryActive' # IsInventoryActive) <=> ("I" \in accepted')
        /\ ("Enter" \in accepted') => (IsChatCursorActive' # IsChatCursorActive)
        /\ (IsChatCursorActive' # IsChatCursorActive)
              => (accepted' \cap {"Tab", "Enter"} # {})]_vars

\* C7's case: the chat box has been opened, the map editor toggled on and,
\* later, off again, and the Update exactly debounceTime after that toggle
\* has toggled nothing.
C7_Witness ==
    /\ IsChatBoxActive
    /\ sinceToggle["M"] < sinceToggle["Tab"]
    /\ ~IsMapEditorActive
    /\ accepted = {}
    /\ now - lastToggleTime = debounceTime

(***************************************************************************)
(* SpecChat: the engine alone, chatting.  In every Update the user holds   *)
(* Tab or Enter, or types, or both; what is typed is one rune into an      *)
(* empty text: a, or for the first message the euro sign.  The Updates are *)
(* just over a debounce time apart.                                        *)
(***************************************************************************)
ChatInputs ==
    {Frame(keys, chars, DtLong) :
        keys \in {{}, {"Tab"}, {"Enter"}},
        chars \in {<<>>, <<RuneA>>, <<RuneEuro>>}}

InitChat == InitGame({Table(1, 1)}, "off")

UpdateChat ==
    \E in \in ChatInputs :
        /\ now + in.dt <= StartClock + HorizonChat
        /\ in.keys = {} => in.chars # <<>>
        /\ in.chars # <<>> => currentChatMessage = <<>>
        /\ in.chars = <<RuneEuro>> => chatMessages = <<>>
        /\ Update(in)

NextChat == UpdateChat

SpecChat == InitChat /\ [][NextChat]_vars

EchoInputs ==
    {Frame(keys, chars, DtLong) :
        keys \in {{}, {"Tab"}, {"Enter"}}, chars \in {<<>>, <<RuneA>>}}

InitEcho == InitGame({Table(1, 1)}, "read")

UpdateEcho ==
    \E in \in EchoInputs :
        /\ now + in.dt <= StartClock + HorizonEcho
        /\ in.keys = {} => in.chars # <<>>
        /\ in.chars # <<>> => currentChatMessage = <<>>
        /\ Update(in)

handleServerMessages ==
    \/ \E message \in ServerMessages : HandleMessage(message)
    \/ HandleError

NextEcho == UpdateEcho \/ Listen \/ handleServerMessages

SpecEcho == InitEcho /\ [][NextEcho]_vars

\* The chat messages among the writes of an Update.
ChatWrites(writes) == SelectSeq(writes, LAMBDA m : "username" \in DOMAIN m)

\* C9: an Update in which Enter takes the cursor out of a non-empty text
\* writes one {username, message} to the connection, adds the one entry
\* "<Username>: <text>" at the end of chatMessages and leaves
\* currentChatMessage empty; any other Update writes no chat message and
\* leaves chatMessages alone, and so does every step of ListenToServer and of
\* handleServerMessages.
C9_AppendedOnSendOnly ==
    [][IF /\ now' # now
          /\ "Enter" \in accepted'
          /\ ~IsChatCursorActive'
          /\ currentChatMessage # <<>>
       THEN /\ ChatWrites(sent') =
                  <<[username |-> Username, message |-> currentChatMessage]>>
            /\ chatMessages' =
                  Append(chatMessages,
                         Username \o <<58, 32>> \o currentChatMessage)
            /\ currentChatMessage' = <<>>
       ELSE /\ chatMessages' = chatMessages
            /\ now' # now => ChatWrites(sent') = <<>>]_vars

\* C9's case: two messages have been sent, the second under the username a
\* login_success set and just now, and a broadcast has been stored.
C9_Witness ==
    /\ Len(chatMessages) = 2
    /\ chatMessages[1] = LoginName \o <<58, 32, RuneA>>
    /\ chatMessages[2] = OtherName \o <<58, 32, RuneA>>
    /\ sent = <<[username |-> OtherName, message |-> <<RuneA>>]>>
    /\ currentChatMessage = <<>>
    /\ Players # NoPlayers

(***************************************************************************)
(* SpecType: the engine alone, typing.  A frame brings no rune, one rune   *)
(* of one, two or three bytes, or, into an empty text, a burst of BurstLen *)
(* a's; the user holds Tab, Enter, Backspace or nothing.                   *)
(***************************************************************************)
Burst == [i \in 1..BurstLen |-> RuneA]

TypeInputs ==
    {Frame(keys, chars, DtLong) :
        keys \in {{}, {"Tab"}, {"Enter"}, {"Backspace"}},
        chars \in {<<>>, <<RuneA>>, <<RuneEAcute>>, <<RuneEuro>>, Burst}}

InitType == InitGame({Table(1, 1)}, "off")

UpdateType ==
    \E in \in TypeInputs :
        /\ now + in.dt <= StartClock + HorizonType
        /\ in.chars = Burst => currentChatMessage = <<>>
        /\ Update(in)

NextType == UpdateType

SpecType == InitType /\ [][NextType]_vars

\* C6, as claimed: whatever is typed, runes of several bytes included,
\* currentChatMessage never holds more than maxMessageLen bytes.
C6_TextCapped == Len(currentChatMessage) <= maxMessageLen

(***************************************************************************)
(* SpecStart: runGame from its first line (main.go lines 116-155): the     *)
(* dial, the Game literal, LoadFrames, the two go statements and           *)
(* ebiten.RunGame; then the client as in Spec, for a few Updates.          *)
(***************************************************************************)
\* g.PlayerImages as the Game literal makes it.
NoImages == [d \in {} |-> 0]

\* What LoadFrames has stored when it returns an error: whole directions,
\* and of the direction it failed in, the animation types loaded before.
PartialLoads(table) ==
    {[d \in loaded \cup {failed} |->
         IF d = failed THEN [t \in types |-> table[d][t]] ELSE table[d]] :
        failed \in Directions,
        loaded \in SUBSET Directions,
        types \in (SUBSET AnimationTypes) \ {AnimationTypes}}

\* ConnectToServer whose dial is tried again after an error.
DialRetry ==
    /\ pcMain = "dial"
    /\ dials' = dials + 1
    /\ UNCHANGED <<gameVars, updateVars, listenVars, drawVars, pcPrint,
                   handleVars, pcMain, conn>>

\* ConnectToServer returns a connection (part_000 lines 16-21).
DialOk ==
    /\ pcMain = "dial"
    /\ dials' = dials + 1
    /\ conn' = "open"
    /\ pcMain' = "load"
    /\ UNCHANGED <<gameVars, updateVars, listenVars, drawVars, pcPrint,
                   handleVars>>

\* ConnectToServer returns nil and the error; runGame calls log.Fatal.
DialFail ==
    /\ pcMain = "dial"
    /\ dials' = dials + 1
    /\ conn' = "nil"
    /\ pcMain' = "fatal"
    /\ UNCHANGED <<gameVars, updateVars, listenVars, drawVars, pcPrint,
                   handleVars>>

\* LoadFrames returns nil (main.go lines 140-143).
LoadFramesOk(table) ==
    /\ pcMain = "load"
    /\ PlayerImages' = table
    /\ pcMain' = "listen"
    /\ UNCHANGED <<Players, FrameIndex, AnimationTick, AnimationSpeed,
                   Direction, IsMoving, IsMapEditorActive, IsInventoryActive,
                   IsChatBoxActive, IsChatCursorActive, lastToggleTime,
                   lastCursorBlink, cursorVisible, chatMessages,
                   currentChatMessage, Username, chatScrollOffset,
                   isDraggingScrollBar, dragStartY, originalScrollOffset, mu,
                   updateVars, listenVars, drawVars, pcPrint, handleVars, conn,
                   dials>>

\* LoadFrames returns an error; runGame calls log.Fatal.
LoadFramesFail(partial) ==
    /\ pcMain = "load"
    /\ PlayerImages' = partial
    /\ pcMain' = "fatal"
    /\ UNCHANGED <<Players, FrameIndex, AnimationTick, AnimationSpeed,
                   Direction, IsMoving, IsMapEditorActive, IsInventoryActive,
                   IsChatBoxActive, IsChatCursorActive, lastToggleTime,
                   lastCursorBlink, cursorVisible, chatMessages,
                   currentChatMessage, Username, chatScrollOffset,
                   isDraggingScrollBar, dragStartY, originalScrollOffset, mu,
                   updateVars, listenVars, drawVars, pcPrint, handleVars, conn,
                   dials>>

\* StartListen that also starts handleServerMessages on the connection.
StartListenAndHandle ==
    /\ pcMain = "listen"
    /\ pcListen' = "read"
    /\ pcHandle' = "read"
    /\ pcMain' = "print"
    /\ UNCHANGED <<gameVars, updateVars, players, readFailed, drawVars,
                   pcPrint, received, conn, dials>>

\* go g.ListenToServer() (line 145).
StartListen ==
    /\ pcMain = "listen"
    /\ pcListen' = "read"
    /\ pcMain' = "print"
    /\ UNCHANGED <<gameVars, updateVars, players, readFailed, drawVars,
                   pcPrint, handleVars, conn, dials>>

\* go g.PrintCoordinates() (line 146).
StartPrint ==
    /\ pcMain = "print"
    /\ pcPrint' = "sleep"
    /\ pcMain' = "engine"
    /\ UNCHANGED <<gameVars, updateVars, listenVars, drawVars, handleVars,
                   conn, dials>>

\* ebiten.RunGame(g) (line 152): the engine starts calling Update and Draw.
RunGame ==
    /\ pcMain = "engine"
    /\ pcDraw' = "idle"
    /\ pcMain' = "running"
    /\ UNCHANGED <<gameVars, updateVars, listenVars, frame, screen, pcPrint,
                   handleVars, conn, dials>>

runGame ==
    \/ DialOk
    \/ DialFail
    \/ \E table \in RunTables : LoadFramesOk(table)
    \/ \E table \in RunTables : \E partial \in PartialLoads(table) :
          LoadFramesFail(partial)
    \/ StartListen
    \/ StartPrint
    \/ RunGame

InitStart ==
    /\ NewGame
    /\ PlayerImages = NoImages
    /\ pcListen = "off"
    /\ pcPrint = "off"
    /\ pcDraw = "off"
    /\ pcHandle = "off"
    /\ pcMain = "dial"
    /\ conn = "nil"
    /\ dials = 0

UpdateStart ==
    \E in \in RunInputs :
        /\ now + in.dt <= StartClock + HorizonStart
        /\ Update(in)

NextStart == runGame \/ UpdateStart \/ Draw \/ Listen \/ PrintCoordinates

SpecStart == InitStart /\ [][NextStart]_vars

\* The receive loop, the coordinate logger or the engine has been started.
Started == pcListen # "off" \/ pcPrint # "off" \/ pcDraw # "off"

\* C11: the dial is attempted once; a dial that fails leaves no connection;
\* after log.Fatal nothing has been started, no Update has run and nothing
\* runs any more; and whatever has been started was started with the
\* connection open and every direction's frames loaded.
C11_FailuresAbortStartup ==
    /\ [](/\ dials <= 1
          /\ conn = "nil" => pcMain \in {"dial", "fatal"}
          /\ pcMain = "fatal" => ~Started /\ now = StartClock /\ screen = Blank
          /\ Started => /\ pcMain \in {"print", "engine", "running"}
                        /\ conn = "open"
                        /\ PlayerImages \in RunTables)
    /\ [][pcMain = "fatal" => UNCHANGED vars]_vars

\* C11's case: the dial succeeded and LoadFrames failed after it had loaded
\* some frames; the process is gone.
C11_Witness ==
    /\ pcMain = "fatal"
    /\ conn = "open"
    /\ PlayerImages # NoImages

(***************************************************************************)
(* SpecDraw: the engine and the receive loop; the user holds M, I, Tab, Up *)
(* or nothing, the Updates just over a debounce time apart.                *)
(***************************************************************************)
DrawInputs ==
    {Frame(keys, <<>>, DtLong) : keys \in {{}, {"M"}, {"I"}, {"Tab"}, {"Up"}}}

InitDraw == InitGame(RunTables, "off")

UpdateDraw ==
    \E in \in DrawInputs :
        /\ now + in.dt <= StartClock + HorizonDraw
        /\ Update(in)

NextDraw == UpdateDraw \/ Draw \/ Listen

SpecDraw == InitDraw /\ [][NextDraw]_vars

\* A step of Draw's lines 270-284.
BeginsDraw ==
    /\ pcDraw = "idle"
    /\ now' = now
    /\ screen' # screen \/ pcDraw' # "idle"

\* C12: a Draw with the map editor active draws the map editor and nothing
\* else, whether or not the inventory is active too; one with the inventory
\* active and the map editor not, the inventory and nothing else; Draw goes
\* on to the sprites only with neither active, and it then draws the current
\* frame at the coordinates of every player in Players, and nowhere else.
C12_DrawSelectsPanel ==
    /\ [](pcDraw \in {"frame", "lock", "coords"}
             => ~IsMapEditorActive /\ ~IsInventoryActive)
    /\ [][/\ BeginsDraw =>
               /\ screen'.sprites = {} /\ screen'.coords = <<>>
               /\ IF IsMapEditorActive
                  THEN /\ screen'.fill = "mapEditor"
                       /\ ~screen'.chatBox
                       /\ pcDraw' = "idle"
                  ELSE IF IsInventoryActive
                  THEN /\ screen'.fill = "inventory"
                       /\ ~screen'.chatBox
                       /\ pcDraw' = "idle"
                  ELSE /\ screen'.fill = "black"
                       /\ screen'.chatBox = IsChatBoxActive
                       /\ pcDraw' = "frame"
          /\ (pcDraw = "lock" /\ pcDraw' = "coords") =>
               /\ frame.err = "nil"
               /\ screen'.sprites =
                     {[frame |-> frame.frame, x |-> Players[k].x,
                       y |-> Players[k].y] : k \in DOMAIN Players}
          /\ screen'.sprites # screen.sprites =>
               BeginsDraw \/ (pcDraw = "lock" /\ pcDraw' = "coords")]_vars

\* C12's case: with the inventory and the map editor both active and players
\* on the map, a Draw has drawn the map editor.
C12_Witness ==
    /\ IsMapEditorActive
    /\ IsInventoryActive
    /\ Players # NoPlayers
    /\ screen.fill = "mapEditor"
    /\ pcDraw = "idle"

\* The frame table of the current direction and animation type is empty.
NoFrames == PlayerImages[Direction][AnimationType(IsMoving)] = 0

\* C13: with an empty frame table getCurrentFrame returns an error and the
\* nil frame, and Draw passes the sprites by; the rest of a Draw whose
\* getCurrentFrame failed draws no sprite and returns to the engine; neither
\* step changes a field of Game.
C13_NoFramesIsOnlyLogged ==
    [][/\ (pcDraw = "frame" /\ pcDraw' # "frame" /\ NoFrames) =>
            /\ frame'.err # "nil"
            /\ frame'.frame = <<>>
            /\ pcDraw' = "coords"
            /\ screen'.sprites = {}
            /\ UNCHANGED gameVars
       /\ (pcDraw = "coords" /\ pcDraw' # "coords" /\ frame.err # "nil") =>
            /\ screen'.sprites = {}
            /\ pcDraw' = "idle"
            /\ pcMain' = "running"
            /\ UNCHANGED gameVars]_vars

\* C13's case: with players on the map, a Draw whose getCurrentFrame found
\* no frames has returned, having drawn the coordinates and no sprite.
C13_Witness ==
    /\ pcDraw = "idle"
    /\ frame.err = "no frames available"
    /\ NoFrames
    /\ Players # NoPlayers
    /\ screen.coords # <<>>
    /\ screen.sprites = {}

\* C14 (under SpecEcho): a step in which handleServerMessages reads a
\* message changes no field of Game but Username and does not end the loop;
\* it sets Username to the message's username ("" when it has none) if the
\* message unmarshals and its type is login_success, and leaves Username
\* alone otherwise.  Username changes in no other step, and the loop ends
\* only where a read fails, a step that changes no field of Game.
C14_OnlyLoginSuccessSetsUsername ==
    [][/\ received' # received =>
            /\ pcHandle = "read" /\ pcHandle' = "read"
            /\ UNCHANGED <<engineVars, Players, mu>>
            /\ Username' =
                 IF /\ "nested" \notin DOMAIN received'
                    /\ "type" \in DOMAIN received'
                    /\ received'.type = "login_success"
                 THEN IF "username" \in DOMAIN received'
                      THEN received'.username
                      ELSE <<>>
                 ELSE Username
       /\ Username' # Username => received' # received
       /\ pcHandle' # pcHandle =>
            /\ pcHandle = "read" /\ pcHandle' = "done"
            /\ received' = received
            /\ UNCHANGED gameVars]_vars

\* C14's case: a login_success without a username has set the username to
\* "", a chat message that names a username has been read after it, and the
\* loop is still reading.
C14_Witness ==
    /\ Username = <<>>
    /\ received = [type |-> "chat", username |-> OtherName]
    /\ pcHandle = "read"

(***************************************************************************)
(* SpecScroll: the engine alone, scrolling the chat.  The user holds Tab,  *)
(* Enter, PageUp, PageDown, the left mouse button or nothing, with the     *)
(* cursor over the scroll bar's column at the top, the middle or the       *)
(* bottom of the chat box, and types a into an empty text.                 *)
(***************************************************************************)
ScrollInputs ==
    {[keys |-> keys, chars |-> chars, mouseX |-> ScreenWidth - 5,
      mouseY |-> mouseY, dt |-> DtLong] :
        keys \in {{}, {"Tab"}, {"Enter"}, {"PageUp"}, {"PageDown"},
                  {"MouseLeft"}},
        chars \in {<<>>, <<RuneA>>},
        mouseY \in {ScreenHeight - chatBoxHeight,
                    ScreenHeight - chatBoxHeight \div 2, ScreenHeight}}

InitScroll == InitGame({Table(1, 1)}, "off")

UpdateScroll ==
    \E in \in ScrollInputs :
        /\ now + in.dt <= StartClock + HorizonScroll
        /\ in.chars # <<>> => currentChatMessage = <<>>
        /\ Update(in)

NextScroll == UpdateScroll \/ Draw

SpecScroll == InitScroll /\ [][NextScroll]_vars

\* C15, as claimed: the scroll offset lies between 0 and
\* max(0, len(chatMessages) - maxChatLines), and drawChatBox never indexes
\* chatMessages out of range.
C15_ScrollOffsetInRange ==
    /\ 0 <= chatScrollOffset
    /\ chatScrollOffset <= max(0, Len(chatMessages) - maxChatLines)
    /\ pcDraw # "panic"

\* C16 (under SpecUI): the chat cursor is active only while the chat box is
\* open; an Update that closes the chat box leaves the cursor inactive; and
\* an Update activates the cursor only by an accepted Enter, with the chat
\* box open.
C16_CursorOnlyInOpenChatBox ==
    /\ [](IsChatCursorActive => IsChatBoxActive)
    /\ [][/\ (IsChatBoxActive /\ ~IsChatBoxActive') => ~IsChatCursorActive'
          /\ (~IsChatCursorActive /\ IsChatCursorActive') =>
                /\ IsChatBoxActive'
                /\ "Enter" \in accepted'
          /\ (~IsChatBoxActive' /\ now' # now) => "Enter" \notin accepted']_vars

\* C16's case: the cursor was blinking in the previous Update, and this one
\* closed the chat box with Tab.
C16_Witness ==
    /\ ~IsChatBoxActive
    /\ ~IsChatCursorActive
    /\ accepted = {"Tab"}
    /\ lastCursorBlink # ZeroTime
    /\ now - lastCursorBlink = DtLong

\* The place of a control in the order of Update's if statements.
Rank == [c \in Controls |->
            IF c = "Tab" THEN 1 ELSE IF c = "Enter" THEN 2
            ELSE IF c = "M" THEN 3 ELSE 4]

\* The first of the controls S in that order; S is not empty.
First(S) == CHOOSE c \in S : \A d \in S : Rank[c] <= Rank[d]

\* C17, as claimed (under SpecUI): an Update toggles at most one control,
\* and none but the first, in the order Tab, Enter, M, I, of the controls
\* held.
C17_FirstHeldOnly ==
    /\ Cardinality(accepted) <= 1
    /\ held \cap Controls # {} => accepted \subseteq {First(held \cap Controls)}

\* The held controls whose own condition the Update found true: Enter wants
\* the chat box open, M and I the chat cursor not active (both as the Tab and
\* Enter handling left them).
Eligible ==
    {c \in held \cap Controls :
        \/ c = "Tab"
        \/ c = "Enter" /\ IsChatBoxActive
        \/ c \in {"M", "I"} /\ ~IsChatCursorActive}

\* C17, amended: an Update toggles at most one control; it toggles one only
\* more than debounceTime after the last toggle of any control, and then
\* stamps lastToggleTime; the control toggled is the first, in the order Tab,
\* Enter, M, I, of the held controls whose own condition holds, which need
\* not be the first control held.
C17_OneTogglePerWindow ==
    /\ [](accepted = IF Eligible # {} /\ lastToggleTime = now
                     THEN {First(Eligible)} ELSE {})
    /\ [][now' # now =>
            IF accepted' # {}
            THEN /\ Cardinality(accepted') = 1
                 /\ now' - lastToggleTime > debounceTime
                 /\ \A c \in Controls :
                       sinceToggle[c] + (now' - now) > debounceTime
                 /\ lastToggleTime' = now'
            ELSE /\ lastToggleTime' = lastToggleTime
                 /\ Eligible' # {} => now' - lastToggleTime <= debounceTime]_vars

\* C17's case: with the chat box closed, Enter, M and I were held; Enter, the
\* first held, did nothing, and of M and I the map editor was toggled.
C17_Witness ==
    /\ held = {"Enter", "M", "I"}
    /\ accepted = {"M"}
    /\ ~IsChatBoxActive
    /\ IsMapEditorActive
    /\ ~IsInventoryActive

(***************************************************************************)
(* SpecFocus: the engine alone; the user holds Tab, Enter, M, I, Up, the   *)
(* last three together, or nothing, and types nothing or the letter m.     *)
(***************************************************************************)
FocusInputs ==
    {Frame(keys, chars, DtLong) :
        keys \in {{}, {"Tab"}, {"Enter"}, {"M"}, {"I"}, {"Up"},
                  {"M", "I", "Up"}},
        chars \in {<<>>, <<RuneM>>}}

InitFocus == InitGame({Table(1, 1)}, "off")

UpdateFocus ==
    \E in \in FocusInputs :
        /\ now + in.dt <= StartClock + HorizonFocus
        /\ Update(in)

NextFocus == UpdateFocus

SpecFocus == InitFocus /\ [][NextFocus]_vars

\* C18: an Update that leaves the chat cursor active (the cursor is set in
\* the Tab and Enter handling only) toggles neither the map editor nor the
\* inventory, writes no message to the connection, and neither moves nor
\* turns the player.
C18_TypingStaysInChat ==
    [][(now' # now /\ IsChatCursorActive') =>
          /\ IsMapEditorActive' = IsMapEditorActive
          /\ IsInventoryActive' = IsInventoryActive
          /\ accepted' \cap {"M", "I"} = {}
          /\ sent' = <<>>
          /\ ~IsMoving'
          /\ Direction' = Direction]_vars

\* C18's case: with the cursor active, the letter m was typed into the chat
\* text while M, I and Up were held.
C18_Witness ==
    /\ IsChatCursorActive
    /\ held = {"M", "I", "Up"}
    /\ Len(currentChatMessage) > 0
    /\ currentChatMessage[Len(currentChatMessage)] = RuneM
    /\ ~IsMapEditorActive
    /\ ~IsInventoryActive
    /\ sent = <<>>

(***************************************************************************)
(* SpecSteer: the engine alone; the user holds any set of arrow keys, or   *)
(* Tab, or Enter with or without Up.  The Walk lists have MaxFrames        *)
(* frames, so that FrameIndex is not 0 when the player turns.              *)
(***************************************************************************)
Arrows == {"Up", "Down", "Left", "Right"}

SteerInputs ==
    {Frame(keys, <<>>, DtLong) :
        keys \in (SUBSET Arrows) \cup {{"Tab"}, {"Enter"}, {"Enter", "Up"}}}

InitSteer == InitGame({Table(1, MaxFrames)}, "off")

UpdateSteer ==
    \E in \in SteerInputs :
        /\ now + in.dt <= StartClock + HorizonSteer
        /\ Update(in)

NextSteer == UpdateSteer

SpecSteer == InitSteer /\ [][NextSteer]_vars

\* The arrow keys in the order of the if/else chain, with the command and
\* the direction of each.
ArrowRank == [k \in Arrows |->
                 IF k = "Up" THEN 1 ELSE IF k = "Down" THEN 2
                 ELSE IF k = "Left" THEN 3 ELSE 4]

ArrowMove == [k \in Arrows |->
                 IF k = "Up" THEN <<"move_up", "North">>
                 ELSE IF k = "Down" THEN <<"move_down", "South">>
                 ELSE IF k = "Left" THEN <<"move_left", "West">>
                 ELSE <<"move_right", "East">>]

MoveWrites(writes) == SelectSeq(writes, LAMBDA m : "type" \in DOMAIN m)

\* C19: an Update writes at most one move command; it writes one exactly
\* when an arrow key is held and the chat cursor is not active, and then the
\* command is that of the first held key in the order up, down, left,
\* right, with amount 2, and Direction is the direction of that key.
\* IsMoving is true after the Update exactly when it wrote a move command.
C19_OneMoveByPriority ==
    [][now' # now =>
          LET moves == MoveWrites(sent')
              arrows == held' \cap Arrows
          IN  /\ Len(moves) <= 1
              /\ IsMoving' <=> Len(moves) = 1
              /\ Len(moves) = 1 <=> (arrows # {} /\ ~IsChatCursorActive')
              /\ Len(moves) = 1 =>
                    \E k \in arrows :
                        /\ \A j \in arrows : ArrowRank[k] <= ArrowRank[j]
                        /\ moves[1] = [type |-> ArrowMove[k][1], amount |-> 2]
                        /\ Direction' = ArrowMove[k][2]
              /\ Len(moves) = 0 => Direction' = Direction]_vars

\* C19's case: Down, Left and Right are held together and move_down was
\* written.
C19_Witness ==
    /\ held = {"Down", "Left", "Right"}
    /\ sent = <<[type |-> "move_down", amount |-> 2]>>
    /\ Direction = "South"
    /\ IsMoving

\* C20: in an Update that moves the player towards d, Direction becomes d;
\* FrameIndex is reset to 0 when d differs from the Direction before and is
\* kept when d equals it (the animation step of the same Update, when it
\* runs, then advances that value); with only arrow keys held, no other
\* field than IsMoving and the animation counters changes.
C20_SetDirectionResetsOnTurn ==
    [][(now' # now /\ IsMoving') =>
          LET d == MoveDirection(MoveWrites(sent')[1].type)
              index == IF d # Direction THEN 0 ELSE FrameIndex
          IN  /\ Direction' = d
              /\ FrameIndex' = IF AnimationTick' = 0
                               THEN updateFrameIndex(PlayerImages, d, TRUE, index)
                               ELSE index
              /\ held' \subseteq Arrows =>
                    UNCHANGED <<PlayerImages, Players, Username, mu,
                                IsChatBoxActive, IsChatCursorActive,
                                IsMapEditorActive, IsInventoryActive,
                                chatMessages, currentChatMessage,
                                chatScrollOffset, lastToggleTime,
                                lastCursorBlink, cursorVisible>>]_vars

\* C20's case: the tenth Update of a walk stepped FrameIndex to 1, and the
\* eleventh turned the player east, which reset FrameIndex to 0.
C20_Witness ==
    /\ now = StartClock + 11 * DtLong
    /\ held = {"Right"}
    /\ Direction = "East"
    /\ IsMoving
    /\ AnimationTick = 1
    /\ FrameIndex = 0

(***************************************************************************)
(* SpecTick: the engine alone, long enough for an Idle animation step      *)
(* after a walk.  The user holds Up, Right or nothing; the Idle lists are  *)
(* empty or have one frame, the Walk lists have MaxFrames frames.          *)
(***************************************************************************)
TickInputs == {Frame(keys, <<>>, DtLong) : keys \in {{}, {"Up"}, {"Right"}}}

InitTick == InitGame({Table(0, MaxFrames), Table(1, MaxFrames)}, "off")

UpdateTick ==
    \E in \in TickInputs :
        /\ now + in.dt <= StartClock + HorizonTick
        /\ Update(in)

NextTick == UpdateTick

SpecTick == InitTick /\ [][NextTick]_vars

\* C21: AnimationTick is at least 0 and below the speed of the animation
\* type of the last Update (30 for Idle, 10 for Walk); each Update adds one
\* to it and resets it to 0 when that reaches the speed of the type the
\* Update selected, and records that speed in AnimationSpeed.
C21_TickBelowSpeed ==
    /\ [](/\ 0 <= AnimationTick
          /\ AnimationTick < AnimationSpeeds[AnimationType(IsMoving)])
    /\ [][now' # now =>
             LET speed == AnimationSpeeds[AnimationType(IsMoving')]
             IN  /\ AnimationSpeed' = speed
                 /\ AnimationTick' = IF AnimationTick + 1 >= speed THEN 0
                                     ELSE AnimationTick + 1]_vars

\* C21's case: the player stood for 15 Updates and then walked, and the
\* first Update of the walk reset the tick of 16.
C21_Witness ==
    /\ now = StartClock + 16 * DtLong
    /\ IsMoving
    /\ AnimationTick = 0
    /\ FrameIndex = 1
    /\ sent = <<[type |-> "move_up", amount |-> 2]>>
    /\ Direction = "North"

\* C22: an Update that keeps the direction and the animation type steps
\* FrameIndex by one modulo the frame count exactly when the tick, which
\* counts the Updates since the last step, reaches the speed of the type,
\* and leaves FrameIndex unchanged otherwise; an Update whose step finds the
\* frame list empty sets FrameIndex to 0.
C22_StepEverySpeedUpdates ==
    [][now' # now =>
          LET frameCount == PlayerImages[Direction'][AnimationType(IsMoving')]
              speed == AnimationSpeeds[AnimationType(IsMoving')]
          IN  /\ (Direction' = Direction /\ IsMoving' = IsMoving) =>
                    IF AnimationTick + 1 = speed
                    THEN /\ AnimationTick' = 0
                         /\ frameCount > 0 =>
                               FrameIndex' = (FrameIndex + 1) % frameCount
                    ELSE /\ AnimationTick' = AnimationTick + 1
                         /\ AnimationTick' < speed
                         /\ FrameIndex' = FrameIndex
              /\ (AnimationTick' = 0 /\ frameCount = 0) => FrameIndex' = 0]_vars

\* C22's case: twenty Updates of one walk have stepped FrameIndex twice,
\* from 0 to 1 and back to 0 of the MaxFrames = 2 walk frames.
C22_Witness ==
    /\ now = StartClock + 20 * DtLong
    /\ IsMoving
    /\ Direction = "East"
    /\ AnimationTick = 0
    /\ FrameIndex = 0
    /\ AnimationSpeed = 10

\* C23: an Update writes at most one chat message and appends at most one
\* entry, and does either only when it accepted Enter, the cursor was active
\* before and is inactive after, and the typed text was not empty; the
\* message then carries that text, the entry is its "username: text" line
\* and the text is cleared.  An Update that accepts Tab and closes the chat
\* box writes no chat message and leaves currentChatMessage, chatMessages
\* and chatScrollOffset unchanged.
C23_SendOnlyOnEnterWithText ==
    [][now' # now =>
          LET chats == ChatWrites(sent')
              sends == /\ "Enter" \in accepted'
                       /\ IsChatCursorActive
                       /\ ~IsChatCursorActive'
                       /\ Len(currentChatMessage) > 0
          IN  /\ (chats # <<>> \/ chatMessages' # chatMessages) <=> sends
              /\ sends =>
                    /\ chats = <<ChatMessage(Username, currentChatMessage)>>
                    /\ chatMessages' =
                          Append(chatMessages,
                                 Sprintf(Username, currentChatMessage))
                    /\ currentChatMessage' = <<>>
              /\ \A i \in 1..Len(chats) : Len(chats[i].message) > 0
              /\ ("Tab" \in accepted' /\ ~IsChatBoxActive') =>
                    /\ chats = <<>>
                    /\ UNCHANGED <<currentChatMessage, chatMessages,
                                   chatScrollOffset>>]_vars

\* C23's case: Tab closed the chat box while a typed text was waiting;
\* nothing was sent and the text is still there.
C23_Witness ==
    /\ accepted = {"Tab"}
    /\ ~IsChatBoxActive
    /\ ~IsChatCursorActive
    /\ Len(currentChatMessage) > 0
    /\ chatMessages = <<>>
    /\ sent = <<>>

(***************************************************************************)
(* SpecSend: the engine alone; the user opens the chat box, types the      *)
(* letter a and sends it with Enter, alone or with PageUp or PageDown      *)
(* held in the same frame.                                                 *)
(***************************************************************************)
SendInputs ==
    {Frame(keys, chars, DtLong) :
        keys \in {{}, {"Tab"}, {"Enter"}, {"Enter", "PageUp"},
                  {"Enter", "PageDown"}},
        chars \in {<<>>, <<RuneA>>}}

InitSend == InitGame({Table(1, 1)}, "off")

UpdateSend ==
    \E in \in SendInputs :
        /\ now + in.dt <= StartClock + HorizonSend
        /\ Update(in)

NextSend == UpdateSend \/ Draw

SpecSend == InitSend /\ [][NextSend]_vars

\* C24: after an Update that sent a chat message, chatScrollOffset is
\* max(0, len(chatMessages) - maxChatLines), and a Draw of that state
\* shows the new message, the last of chatMessages, among its chat lines.
C24_SendScrollsToBottom ==
    ChatWrites(sent) # <<>> =>
        /\ chatScrollOffset = max(0, Len(chatMessages) - maxChatLines)
        /\ LET shown == drawChatBox(chatMessages, chatScrollOffset)
           IN  /\ ~shown.panic
               /\ \E i \in 1..Len(shown.lines) :
                     shown.lines[i] = chatMessages[Len(chatMessages)]

(***************************************************************************)
(* SpecFair: the running client under fair scheduling.  The engine keeps   *)
(* calling Draw, so a Draw step that waits for nothing is taken (WF); a    *)
(* goroutine blocked in g.mu.Lock() gets the lock when it is released      *)
(* again and again (SF: sync.Mutex hands the lock to a waiter that has     *)
(* waited long); a goroutine holding the lock goes on to release it (WF).  *)
(* Nothing obliges the server to send or the user to press a key.  The     *)
(* user holds M, Tab, PageDown or nothing.                                 *)
(***************************************************************************)
FairInputs ==
    {Frame(keys, <<>>, DtLong) : keys \in {{}, {"M"}, {"Tab"}, {"PageDown"}}}

InitFair == InitGame({Table(1, 1)}, "off")

UpdateFair ==
    \E in \in FairInputs :
        /\ now + in.dt <= StartClock + HorizonFair
        /\ Update(in)

NextFair == UpdateFair \/ Draw \/ Listen \/ PrintCoordinates

FairScheduling ==
    /\ WF_vars(DrawBegin)
    /\ SF_vars(DrawFrame)
    /\ SF_vars(DrawSprites)
    /\ WF_vars(DrawCoords)
    /\ SF_vars(ListenLock)
    /\ WF_vars(ListenStore)
    /\ SF_vars(PrintLock)
    /\ WF_vars(PrintLog)

SpecFair == InitFair /\ [][NextFair]_vars /\ FairScheduling

\* The screen of a finished Draw that drew the players of the map all.
Shown(all) ==
    /\ pcDraw = "idle"
    /\ screen.fill = "black"
    /\ screen.sprites = Sprites(all, frame.frame)
    /\ screen.coords = Coordinates(all)

Readers ==
    {r \in {"ListenToServer", "handleServerMessages"} :
        \/ r = "ListenToServer" /\ pcListen = "read"
        \/ r = "handleServerMessages" /\ pcHandle = "read"}

\* C26: in the client runGame starts, handleServerMessages is never
\* started, so at most one goroutine is inside a read of the connection,
\* and a message is taken from it only by ListenToServer's ReadJSON; the
\* connection is written only by an Update, which the engine calls once
\* runGame has reached RunGame and never while a Draw of the same goroutine
\* is under way; nobody reads or writes before the dial has succeeded.
C26_OneReaderOneWriter ==
    /\ [](/\ Cardinality(Readers) <= 1
          /\ pcHandle = "off"
          /\ Readers # {} => conn = "open")
    /\ [][players' # players => (pcListen = "read" /\ pcListen' = "lock")]_vars
    /\ [][received' = received]_vars
    /\ [][sent' # sent =>
             /\ now' # now
             /\ pcMain = "running" /\ conn = "open"
             /\ pcDraw = "idle" /\ pcDraw' = "idle"]_vars

\* C26's case: an Update has written a move command while ListenToServer
\* is inside ReadJSON.
C26_Witness ==
    /\ pcMain = "running"
    /\ Readers = {"ListenToServer"}
    /\ sent = <<[type |-> "move_up", amount |-> 2]>>
    /\ mu = "none"

==========================================================================
